---------------------------- MODULE Spec2Model ----------------------------
(***************************************************************************)
(* A model of sparsepy: Vose's alias sampler (vose.py), the action/effect  *)
(* model (data_structure.py), the search node (search_structure.py) and    *)
(* the Monte-Carlo tree search driver (mcts.py).                           *)
(*                                                                         *)
(* Numbers.  Probabilities and weights are exact rationals (the parser     *)
(* produces Fractions): a weight is an integer numerator over a            *)
(* denominator common to the list.  Rewards and utilities are exact        *)
(* rationals stored as integers scaled by Scale = dden^(horizon), where    *)
(* discounting = dnum/dden; a path of the tree holds at most horizon + 1   *)
(* nodes, so every discounted reward is an integer at that scale.          *)
(***************************************************************************)
EXTENDS Integers, Sequences, FiniteSets, TLC

(***************************************************************************)
(* Bounds of the model.                                                    *)
(***************************************************************************)
\* longest list of (weight, outcome) pairs given to the sampler
MaxN == 3
\* largest weight numerator given to the sampler
MaxW == 3
\* random() is modelled by the uniform draws k / DrawGrid, 0 <= k < DrawGrid
DrawGrid == 4
\* the iteration budget of the bounded search
MaxIter == 4
\* the horizon of the bounded search
MaxHorizon == 4
\* the number of calls of Node methods a direct caller makes
MaxCalls == 4
\* the probabilities of the effects given to an action are k / MaxDen
MaxDen == 4
\* the number of calls a direct caller of rollout_actions makes
MaxRollouts == 3
\* the calls of simulate_action on the nodes of a constructed problem
MaxSimulations == 3
\* the assignments of the delete and add sets of effects made before
MaxAssignments == 2

VARIABLES
    (* vose.py: one Vose object and the last draw made from it *)
    elements,   \* the argument of Vose.__init__: a sequence of weights, outcome i being the i-th element
    prob,       \* Vose._prob, numerators over the total weight
    alias,      \* Vose._alias, pairs of outcomes
    vpc,        \* "new" before __init__, "built" after it, "error" when it raised
    drawn,      \* the value last returned by Vose.random(), 0 before any call
    (* data_structure.py: one call of Action.__init__ *)
    arg_effects,\* the argument effects of Action.__init__, a list of Effects
    new_action, \* the Action constructed, NoAction when there is none
    apc,        \* "new" before __init__, "built" after it, "error" when it raised
    (* mcts.py: the arguments and locals of one call of mcts *)
    problem,    \* the Problem the search runs on
    horizon,    \* the horizon argument
    budget,     \* allowed_iterations of the iteration_budget predicate
    discounting,\* the discounting argument, <<numerator, denominator>>
    nodes,      \* the Node objects in order of creation; nodes[1] is the root
    pc,         \* the position of the driver (or of the caller of the Node methods)
    node,       \* the local node
    depth,      \* the local depth
    iterations, \* the local iterations
    rstart,     \* the node on which the driver called rollout_actions in this iteration
    expanded,   \* the perform_action call of this iteration: <<node, action, child>>, <<>> if none
    call,       \* the call of a Node method made last: [op, node, action, effect]
    result,     \* the action mcts returned, "" before it returns
    error       \* the exception that ended the call, "" if none

vvars == <<elements, prob, alias, vpc, drawn>>
avars == <<arg_effects, new_action, apc>>
svars == <<problem, horizon, budget, discounting>>
tvars == <<nodes, pc, node, depth, iterations, rstart, expanded, call, result, error>>
vars == <<vvars, avars, svars, tvars>>

(***************************************************************************)
(* Helpers on sequences and numbers.                                       *)
(***************************************************************************)
RECURSIVE SumSeq(_)
SumSeq(s) == IF s = <<>> THEN 0 ELSE Head(s) + SumSeq(Tail(s))

RECURSIVE Pow(_, _)
Pow(b, e) == IF e = 0 THEN 1 ELSE b * Pow(b, e - 1)

Last(s) == s[Len(s)]
Front(s) == SubSeq(s, 1, Len(s) - 1)

RECURSIVE SeqsUpTo(_, _)
SeqsUpTo(S, n) ==
    IF n = 0 THEN {<<>>}
    ELSE LET shorter == SeqsUpTo(S, n - 1)
         IN  shorter \cup {Append(s, x) : s \in {t \in shorter : Len(t) = n - 1}, x \in S}

(***************************************************************************)
(* vose.py.  An element is a pair <<weight, outcome>>.  After the          *)
(* normalisation of lines 31 and 36 the weight of an element is            *)
(* w * n / total; the model keeps the numerator w * n and compares it with *)
(* one = total.                                                            *)
(***************************************************************************)
\* VosePair with the remaining weight of the large element not reduced by 1
RECURSIVE VosePairBad(_, _, _, _, _)
VosePairBad(one, small, large, p, a) ==
    IF large = <<>> \/ small = <<>>
    THEN [small |-> small, large |-> large, prob |-> p, alias |-> a]
    ELSE LET s  == Last(small)
             l  == Last(large)
             l2 == <<l[1] + s[1], l[2]>>
         IN  IF l2[1] < one
             THEN VosePairBad(one, Append(Front(small), l2), Front(large),
                              Append(p, s[1]), Append(a, <<s[2], l[2]>>))
             ELSE VosePairBad(one, Front(small), Append(Front(large), l2),
                              Append(p, s[1]), Append(a, <<s[2], l[2]>>))

\* VosePair with the weight of the large element stored as the cutoff of the slot
RECURSIVE VosePairLarge(_, _, _, _, _)
VosePairLarge(one, small, large, p, a) ==
    IF large = <<>> \/ small = <<>>
    THEN [small |-> small, large |-> large, prob |-> p, alias |-> a]
    ELSE LET s  == Last(small)
             l  == Last(large)
             l2 == <<(l[1] + s[1]) - one, l[2]>>
         IN  IF l2[1] < one
             THEN VosePairLarge(one, Append(Front(small), l2), Front(large),
                                Append(p, l[1]), Append(a, <<s[2], l[2]>>))
             ELSE VosePairLarge(one, Front(small), Append(Front(large), l2),
                                Append(p, l[1]), Append(a, <<s[2], l[2]>>))

\* lines 39-50: the pairing loop; the state of the loop is (small, large, prob, alias)
RECURSIVE VosePair(_, _, _, _, _)
VosePair(one, small, large, p, a) ==
    IF large = <<>> \/ small = <<>>
    THEN [small |-> small, large |-> large, prob |-> p, alias |-> a]
    ELSE LET s  == Last(small)
             l  == Last(large)
             l2 == <<(l[1] + s[1]) - one, l[2]>>
         IN  IF l2[1] < one
             THEN VosePair(one, Append(Front(small), l2), Front(large),
                           Append(p, s[1]), Append(a, <<s[2], l[2]>>))
             ELSE VosePair(one, Front(small), Append(Front(large), l2),
                           Append(p, s[1]), Append(a, <<s[2], l[2]>>))

\* lines 51-54: the leftover elements fill a slot each
RECURSIVE VoseRest(_, _, _, _, _)
VoseRest(one, small, large, p, a) ==
    IF large = <<>> /\ small = <<>>
    THEN [prob |-> p, alias |-> a]
    ELSE IF large # <<>>
         THEN VoseRest(one, small, Front(large),
                       Append(p, one), Append(a, <<Last(large)[2], Last(large)[2]>>))
         ELSE VoseRest(one, Front(small), large,
                       Append(p, one), Append(a, <<Last(small)[2], Last(small)[2]>>))

\* VoseInit without the test of line 27: a negative weight is accepted
VoseInitUnchecked(elems) ==
    LET n     == Len(elems)
        total == SumSeq([i \in 1..n |-> elems[i][1]])
    IN  IF ~(total > 0)
        THEN [ok |-> FALSE, one |-> 0, prob |-> <<>>, alias |-> <<>>]
        ELSE LET scaled == [i \in 1..n |-> <<elems[i][1] * n, elems[i][2]>>]
                 IsSmall(e) == e[1] < total
                 IsLarge(e) == e[1] >= total
                 paired == VosePair(total, SelectSeq(scaled, IsSmall),
                                    SelectSeq(scaled, IsLarge), <<>>, <<>>)
                 rest   == VoseRest(total, paired.small, paired.large,
                                    paired.prob, paired.alias)
             IN  [ok |-> TRUE, one |-> total, prob |-> rest.prob, alias |-> rest.alias]

\* Vose.__init__ on a sequence of <<weight, outcome>> pairs
VoseInit(elems) ==
    LET n     == Len(elems)
        total == SumSeq([i \in 1..n |-> elems[i][1]])
    IN  IF \E i \in 1..n : elems[i][1] < 0
        THEN [ok |-> FALSE, one |-> 0, prob |-> <<>>, alias |-> <<>>]
        ELSE IF ~(total > 0)
        THEN [ok |-> FALSE, one |-> 0, prob |-> <<>>, alias |-> <<>>]
        ELSE LET scaled == [i \in 1..n |-> <<elems[i][1] * n, elems[i][2]>>]
                 IsSmall(e) == e[1] < total
                 IsLarge(e) == e[1] >= total
                 paired == VosePair(total, SelectSeq(scaled, IsSmall),
                                    SelectSeq(scaled, IsLarge), <<>>, <<>>)
                 rest   == VoseRest(total, paired.small, paired.large,
                                    paired.prob, paired.alias)
             IN  [ok |-> TRUE, one |-> total, prob |-> rest.prob, alias |-> rest.alias]

\* Vose.random() with the two uniform draws k1 / g and k2 / g
VoseRandom(table, k1, k2, g) ==
    LET i == ((k1 * Len(table.prob)) \div g) + 1
    IN  IF table.prob[i] * g >= k2 * table.one
        THEN table.alias[i][1]
        ELSE table.alias[i][2]

\* the outcomes random() can return over all draws in [0, 1): the primary of
\* every slot (a draw of 0 never exceeds the cutoff) and the alias of every
\* slot whose cutoff is below 1
VoseSupport(table) ==
    {table.alias[i][1] : i \in 1..Len(table.prob)}
    \cup {table.alias[i][2] : i \in {j \in 1..Len(table.prob) : table.prob[j] < table.one}}

(***************************************************************************)
(* data_structure.py.  An effect is a record; an action's effects are      *)
(* told apart by their position in action.effects (Effect objects hash by  *)
(* identity), an action by its name.  Probabilities are numerators over    *)
(* the action's denominator den.                                           *)
(***************************************************************************)
Effect(delete, add, probability, reward) ==
    [delete |-> delete, add |-> add, probability |-> probability, reward |-> reward]

\* sorted(effects, key=probability, reverse=True): a stable sort, so effects of
\* equal probability keep their order
RECURSIVE InsertByProbability(_, _)
InsertByProbability(sorted, e) ==
    IF sorted = <<>> THEN <<e>>
    ELSE IF Last(sorted).probability >= e.probability
         THEN Append(sorted, e)
         ELSE Append(InsertByProbability(Front(sorted), e), Last(sorted))

\* the effects left in the order given
SortNone(effects) == effects

RECURSIVE SortByProbability(_)
SortByProbability(effects) ==
    IF effects = <<>> THEN <<>>
    ELSE InsertByProbability(SortByProbability(Front(effects)), Last(effects))

\* Action without the default effect of lines 123-124
ActionNoDefault(name, preconditions, effects, den) ==
    LET total == SumSeq([i \in 1..Len(effects) |-> effects[i].probability])
        srt   == SortByProbability(effects)
        vose  == VoseInit([i \in 1..Len(srt) |-> <<srt[i].probability, i>>])
    IN  [name |-> name,
         preconditions |-> IF preconditions = <<>> THEN << <<{}, {}>> >> ELSE preconditions,
         effects |-> IF total > den THEN effects ELSE srt,
         den |-> den,
         vose |-> vose,
         ok |-> ~(total > den) /\ ~(total < 0) /\ vose.ok]

\* Action without the test of lines 121-122
ActionUnchecked(name, preconditions, effects, den) ==
    LET total == SumSeq([i \in 1..Len(effects) |-> effects[i].probability])
        all   == IF total < den
                 THEN Append(effects, Effect({}, {}, den - total, 0))
                 ELSE effects
        srt   == SortByProbability(all)
        vose  == VoseInit([i \in 1..Len(srt) |-> <<srt[i].probability, i>>])
    IN  [name |-> name,
         preconditions |-> IF preconditions = <<>> THEN << <<{}, {}>> >> ELSE preconditions,
         effects |-> srt,
         den |-> den,
         vose |-> vose,
         ok |-> vose.ok]

\* Action.__init__; ok is FALSE when the constructor raises: on a total above 1
\* (line 122), on a default effect of probability above 1, which Effect
\* refuses (line 124, when the total is negative), or in Vose (line 128)
Action(name, preconditions, effects, den) ==
    LET total == SumSeq([i \in 1..Len(effects) |-> effects[i].probability])
        all   == IF total < den
                 THEN Append(effects, Effect({}, {}, den - total, 0))
                 ELSE effects
        srt   == SortByProbability(all)
        vose  == VoseInit([i \in 1..Len(srt) |-> <<srt[i].probability, i>>])
    IN  [name |-> name,
         preconditions |-> IF preconditions = <<>> THEN << <<{}, {}>> >> ELSE preconditions,
         effects |-> IF total > den THEN effects ELSE srt,
         den |-> den,
         vose |-> vose,
         ok |-> ~(total > den) /\ ~(total < 0) /\ vose.ok]

\* Action.outcome(): the effects (positions in action.effects) a draw can return
Outcomes(action) == VoseSupport(action.vose)

Problem(name, initial, goals, goal_reward, actions) ==
    [name |-> name, init |-> initial, goals |-> goals, goal_reward |-> goal_reward,
     actions |-> actions]

\* the test without its negative part
SatisfiesPos(state, pair) == pair[2] \subseteq state

\* the (neg, pos) test shared by goals and preconditions
Satisfies(state, pair) == pair[2] \subseteq state /\ pair[1] \cap state = {}

\* Problem.goal_reached
GoalReached(p, state) == \E i \in 1..Len(p.goals) : Satisfies(state, p.goals[i])

ActionNames(p) == {p.actions[i].name : i \in 1..Len(p.actions)}
ActionNamed(p, name) == p.actions[CHOOSE i \in 1..Len(p.actions) : p.actions[i].name = name]

(***************************************************************************)
(* search_structure.py.  A Node is a record; a reference to a Node is its  *)
(* position in nodes, None is 0.  children is a function from the keys     *)
(* <<action, effect>> to nodes; untried_actions is a list of action names; *)
(* tried_actions is the list of its entries in insertion order (a dict     *)
(* keeps it), each [action, reward, visits].                               *)
(***************************************************************************)
Range(s) == {s[i] : i \in 1..Len(s)}

\* the scale of the stored rewards and utilities
Scale == Pow(discounting[2], horizon)

NoChildren == [k \in {} |-> 0]

\* Node.__init__
Node(p, parent, action, effect, state) ==
    LET Applicable(a) == \E i \in 1..Len(a.preconditions) : Satisfies(state, a.preconditions[i])
        usable == SelectSeq(p.actions, Applicable)
    IN  [parent |-> parent, action |-> action, effect |-> effect, state |-> state,
         is_goal |-> GoalReached(p, state),
         children |-> NoChildren,
         visits |-> 0, utility |-> 0,
         untried_actions |-> [i \in 1..Len(usable) |-> usable[i].name],
         tried_actions |-> <<>>]

TriedKeys(n) == {n.tried_actions[i].action : i \in 1..Len(n.tried_actions)}
TriedIndex(n, a) == CHOOSE i \in 1..Len(n.tried_actions) : n.tried_actions[i].action = a
TriedEntry(n, a) == n.tried_actions[TriedIndex(n, a)]

\* list.remove(a): the list without the first occurrence of a
RemoveFirst(s, a) ==
    LET i == CHOOSE j \in 1..Len(s) : s[j] = a /\ \A k \in 1..(j - 1) : s[k] # a
    IN  SubSeq(s, 1, i - 1) \o SubSeq(s, i + 1, Len(s))

\* SimulateAction without the lookup of line 35: a new child replaces the old
SimulateAlwaysNew(ns, n, a, e) ==
    LET eff   == ActionNamed(problem, a).effects[e]
        state == (ns[n].state \ eff.delete) \cup eff.add
        c     == Len(ns) + 1
        kept  == [k \in DOMAIN ns[n].children \ {<<a, e>>} |-> ns[n].children[k]]
    IN  [nodes |-> Append([ns EXCEPT ![n].children = kept @@ (<<a, e>> :> c)],
                          Node(problem, n, a, e, state)),
         child |-> c]

\* SimulateAction that takes the action out of untried_actions, as perform_action does
SimulateConsumes(ns, n, a, e) ==
    LET used == [ns EXCEPT ![n].untried_actions =
                               IF a \in Range(@) THEN RemoveFirst(@, a) ELSE @]
    IN  IF <<a, e>> \in DOMAIN ns[n].children
        THEN [nodes |-> used, child |-> ns[n].children[<<a, e>>]]
        ELSE LET eff   == ActionNamed(problem, a).effects[e]
                 state == (ns[n].state \ eff.delete) \cup eff.add
                 c     == Len(ns) + 1
             IN  [nodes |-> Append([used EXCEPT ![n].children = @ @@ (<<a, e>> :> c)],
                                   Node(problem, n, a, e, state)),
                  child |-> c]

\* SimulateAction with the add set applied before the delete set
SimulateAddFirst(ns, n, a, e) ==
    IF <<a, e>> \in DOMAIN ns[n].children
    THEN [nodes |-> ns, child |-> ns[n].children[<<a, e>>]]
    ELSE LET eff   == ActionNamed(problem, a).effects[e]
             state == (ns[n].state \cup eff.add) \ eff.delete
             c     == Len(ns) + 1
         IN  [nodes |-> Append([ns EXCEPT ![n].children = @ @@ (<<a, e>> :> c)],
                               Node(problem, n, a, e, state)),
              child |-> c]

\* Node.simulate_action once the effect is resolved to e (effects[0] when
\* most_probable, else a draw of action.outcome()): the nodes after the call
\* and the child returned
SimulateAction(ns, n, a, e) ==
    IF <<a, e>> \in DOMAIN ns[n].children
    THEN [nodes |-> ns, child |-> ns[n].children[<<a, e>>]]
    ELSE LET eff   == ActionNamed(problem, a).effects[e]
             state == (ns[n].state \ eff.delete) \cup eff.add
             c     == Len(ns) + 1
         IN  [nodes |-> Append([ns EXCEPT ![n].children = @ @@ (<<a, e>> :> c)],
                               Node(problem, n, a, e, state)),
              child |-> c]

\* tried_actions[a] = (reward, visits)
SetTried(tried, a, reward, visits) ==
    IF \E i \in 1..Len(tried) : tried[i].action = a
    THEN [i \in 1..Len(tried) |->
             IF tried[i].action = a
             THEN [action |-> a, reward |-> reward, visits |-> visits]
             ELSE tried[i]]
    ELSE Append(tried, [action |-> a, reward |-> reward, visits |-> visits])

\* PerformAction that leaves the action in untried_actions
PerformKeeps(ns, n, a, e) ==
    IF a \notin Range(ns[n].untried_actions)
    THEN [nodes |-> ns, child |-> 0, error |-> "ValueError"]
    ELSE LET moved == [ns EXCEPT ![n].tried_actions = SetTried(@, a, 0, 0)]
             sim   == SimulateAction(moved, n, a, e)
         IN  [nodes |-> sim.nodes, child |-> sim.child, error |-> ""]

\* PerformAction with the new entry counted as visited once
PerformCounted(ns, n, a, e) ==
    IF a \notin Range(ns[n].untried_actions)
    THEN [nodes |-> ns, child |-> 0, error |-> "ValueError"]
    ELSE LET moved == [ns EXCEPT ![n].untried_actions = RemoveFirst(@, a),
                                 ![n].tried_actions = SetTried(@, a, 0, 1)]
             sim   == SimulateAction(moved, n, a, e)
         IN  [nodes |-> sim.nodes, child |-> sim.child, error |-> ""]

\* PerformAction with a removal that ignores an action that is not in the list
PerformUnchecked(ns, n, a, e) ==
    LET moved == [ns EXCEPT ![n].untried_actions =
                                IF a \in Range(@) THEN RemoveFirst(@, a) ELSE @,
                            ![n].tried_actions = SetTried(@, a, 0, 0)]
        sim   == SimulateAction(moved, n, a, e)
    IN  [nodes |-> sim.nodes, child |-> sim.child, error |-> ""]

\* Node.perform_action with the effect drawn resolved to e; raises ValueError
\* (list.remove) when a is not in untried_actions, before anything is changed
PerformAction(ns, n, a, e) ==
    IF a \notin Range(ns[n].untried_actions)
    THEN [nodes |-> ns, child |-> 0, error |-> "ValueError"]
    ELSE LET moved == [ns EXCEPT ![n].untried_actions = RemoveFirst(@, a),
                                 ![n].tried_actions = SetTried(@, a, 0, 0)]
             sim   == SimulateAction(moved, n, a, e)
         IN  [nodes |-> sim.nodes, child |-> sim.child, error |-> ""]

\* RolloutActions with a rollout that ends one level above the horizon
RECURSIVE RolloutShort(_, _, _, _)
RolloutShort(ns, n, d, h) ==
    IF ns[n].is_goal
    THEN {[nodes |-> ns, node |-> n, depth |-> d, error |-> ""]}
    ELSE IF d + 1 < h
    THEN IF ns[n].untried_actions = <<>>
         THEN {[nodes |-> ns, node |-> n, depth |-> d, error |-> "IndexError"]}
         ELSE UNION {LET sim == SimulateAction(ns, n, a, 1)
                     IN  RolloutShort(sim.nodes, sim.child, d + 1, h)
                     : a \in Range(ns[n].untried_actions)}
    ELSE {[nodes |-> ns, node |-> n, depth |-> d, error |-> ""]}

\* Node.rollout_actions with rollout_action = choice(node.untried_actions):
\* the set of the results the call can have, over the choices of the policy.
\* choice raises IndexError on an empty list.
RECURSIVE RolloutActions(_, _, _, _)
RolloutActions(ns, n, d, h) ==
    IF ns[n].is_goal
    THEN {[nodes |-> ns, node |-> n, depth |-> d, error |-> ""]}
    ELSE IF d < h
    THEN IF ns[n].untried_actions = <<>>
         THEN {[nodes |-> ns, node |-> n, depth |-> d, error |-> "IndexError"]}
         ELSE UNION {LET sim == SimulateAction(ns, n, a, 1)
                     IN  RolloutActions(sim.nodes, sim.child, d + 1, h)
                     : a \in Range(ns[n].untried_actions)}
    ELSE {[nodes |-> ns, node |-> n, depth |-> d, error |-> ""]}

\* Node.rollout_actions with a rollout_action that returns the actions of
\* choices one after the other, each of them one that
\* choice(node.untried_actions) can return: the result of the call, the
\* choices left over, and whether the policy could make every choice
RECURSIVE RolloutAlong(_, _, _, _, _)
RolloutAlong(ns, n, d, h, choices) ==
    IF ns[n].is_goal
    THEN [nodes |-> ns, node |-> n, depth |-> d, error |-> "", rest |-> choices, valid |-> TRUE]
    ELSE IF d < h
    THEN IF ns[n].untried_actions = <<>>
         THEN [nodes |-> ns, node |-> n, depth |-> d, error |-> "IndexError",
               rest |-> choices, valid |-> TRUE]
         ELSE IF choices = <<>> \/ Head(choices) \notin Range(ns[n].untried_actions)
         THEN [nodes |-> ns, node |-> n, depth |-> d, error |-> "",
               rest |-> choices, valid |-> FALSE]
         ELSE LET sim == SimulateAction(ns, n, Head(choices), 1)
              IN  RolloutAlong(sim.nodes, sim.child, d + 1, h, Tail(choices))
    ELSE [nodes |-> ns, node |-> n, depth |-> d, error |-> "", rest |-> choices, valid |-> TRUE]

\* the reward of node n itself: the goal reward and the reward of its effect
OwnReward(ns, n) ==
    (IF ns[n].is_goal THEN problem.goal_reward * Scale ELSE 0)
    + (IF ns[n].effect # 0
       THEN ActionNamed(problem, ns[n].action).effects[ns[n].effect].reward * Scale
       ELSE 0)

\* StepReward with the discounting applied after the rewards of the node are added
StepRewardLate(ns, n, current) ==
    ((current + OwnReward(ns, n)) * discounting[1]) \div discounting[2]

\* lines 74-78 of Node.update: the reward carried into node n
StepReward(ns, n, current) ==
    ((current * discounting[1]) \div discounting[2]) + OwnReward(ns, n)

\* line 79: only the real, non-simulated nodes are updated
IsReal(ns, n) ==
    ns[n].parent = 0 \/ ns[n].action \in TriedKeys(ns[ns[n].parent])

\* tried_actions[action] of the parent of n, credited with reward (lines 81-82)
CreditEntry(ns, n, reward) ==
    LET p == ns[n].parent
        e == TriedEntry(ns[p], ns[n].action)
    IN  [ns EXCEPT ![p].tried_actions =
            SetTried(@, ns[n].action, e.reward + reward, e.visits + 1)]

\* Credit with the statistics of the node itself moved out of the test of line 79
CreditEveryNode(ns, n, reward) ==
    LET up == IF IsReal(ns, n) /\ ns[n].parent # 0 THEN CreditEntry(ns, n, reward) ELSE ns
    IN  [up EXCEPT ![n].utility = @ + reward, ![n].visits = @ + 1]

\* Credit with the statistics of the node itself moved under the test of line 80
CreditBelowRoot(ns, n, reward) ==
    IF IsReal(ns, n) /\ ns[n].parent # 0
    THEN [CreditEntry(ns, n, reward) EXCEPT ![n].utility = @ + reward, ![n].visits = @ + 1]
    ELSE ns

\* lines 79-84: the statistics of node n and of its entry in the parent
Credit(ns, n, reward) ==
    IF IsReal(ns, n)
    THEN LET up == IF ns[n].parent # 0 THEN CreditEntry(ns, n, reward) ELSE ns
         IN  [up EXCEPT ![n].utility = @ + reward, ![n].visits = @ + 1]
    ELSE ns

\* the loop of Node.update from node n with current_reward = current
RECURSIVE UpdateFrom(_, _, _)
UpdateFrom(ns, n, current) ==
    IF n = 0 THEN ns
    ELSE LET reward == StepReward(ns, n, current)
         IN  UpdateFrom(Credit(ns, n, reward), ns[n].parent, reward)

\* Node.update(discounting) called on node n
Update(ns, n) == UpdateFrom(ns, n, 0)

(***************************************************************************)
(* The problems and the calls of mcts the model runs.                      *)
(***************************************************************************)
\* the action traffic of main.py
Traffic ==
    Action("traffic", << <<{}, {"riches"}>> >>,
           <<Effect({"riches"}, {"house"}, 9, 0), Effect({"riches"}, {}, 1, 0)>>, 10)

\* beg has no precondition; half of the time it yields riches at a cost of 1
\* (riches is in the delete set and in the add set of that effect), and the
\* effects given sum to 1/2, so that a no-op effect is added
Beg ==
    Action("beg", <<>>, <<Effect({"riches"}, {"riches"}, 1, 0 - 1)>>, 2)

\* the end-to-end scenario: riches, the single action traffic, goal house
TrafficProblem ==
    Problem("traffic", {"riches"}, << <<{}, {"house"}>> >>, 1, <<Traffic>>)

\* the same with the action beg added: no state is without an applicable action
BegProblem ==
    Problem("beg", {"riches"}, << <<{}, {"house"}>> >>, 1, <<Traffic, Beg>>)

\* the same from a state that satisfies the goal
GoalProblem ==
    Problem("goal", {"riches", "house"}, << <<{}, {"house"}>> >>, 1, <<Traffic, Beg>>)

\* the calls of mcts: mcts(problem.init, problem, iteration_budget(budget), horizon,
\* discounting=...); the horizon MaxHorizon - 2 is one the search reaches
\* within its budget, and the budget 0 admits no iteration
Scenarios ==
    {[problem |-> TrafficProblem, budget |-> 1000, horizon |-> 5, discounting |-> <<9, 10>>],
     [problem |-> BegProblem, budget |-> MaxIter, horizon |-> MaxHorizon,
      discounting |-> <<1, 2>>],
     [problem |-> BegProblem, budget |-> MaxIter, horizon |-> MaxHorizon - 2,
      discounting |-> <<1, 2>>],
     [problem |-> GoalProblem, budget |-> MaxIter, horizon |-> MaxHorizon,
      discounting |-> <<1, 2>>],
     [problem |-> BegProblem, budget |-> 0, horizon |-> MaxHorizon,
      discounting |-> <<1, 2>>]}

Call(op, n, a, e) == [op |-> op, node |-> n, action |-> a, effect |-> e]
NoCall == Call("", 0, "", 0)

\* no Action object
NoAction ==
    [name |-> "", preconditions |-> <<>>, effects |-> <<>>, den |-> 1,
     vose |-> [ok |-> FALSE, one |-> 0, prob |-> <<>>, alias |-> <<>>], ok |-> FALSE]

AIdle ==
    /\ arg_effects = <<>>
    /\ new_action = NoAction
    /\ apc = "idle"

VIdle ==
    /\ elements = <<>>
    /\ prob = <<>>
    /\ alias = <<>>
    /\ vpc = "idle"
    /\ drawn = 0

TIdle ==
    /\ problem = TrafficProblem
    /\ horizon = 0
    /\ budget = 0
    /\ discounting = <<1, 1>>
    /\ nodes = <<>>
    /\ pc = "idle"
    /\ node = 0
    /\ depth = 0
    /\ iterations = 0
    /\ rstart = 0
    /\ expanded = <<>>
    /\ call = NoCall
    /\ result = ""
    /\ error = ""

(***************************************************************************)
(* mcts.py: the driver.  pc is "start" at the test of the while loop (an   *)
(* iteration boundary), "select" inside the selection loop, "rollout"      *)
(* before the call of rollout_actions, "update" before the call of update, *)
(* "done" when mcts has returned and "error" when an exception left it.    *)
(***************************************************************************)
Init ==
    /\ VIdle
    /\ AIdle
    /\ \E sc \in Scenarios :
          /\ problem = sc.problem
          /\ horizon = sc.horizon
          /\ budget = sc.budget
          /\ discounting = sc.discounting
          /\ nodes = <<Node(sc.problem, 0, "", 0, sc.problem.init)>>
    /\ pc = "start"
    /\ node = 0
    /\ depth = 0
    /\ iterations = 0
    /\ rstart = 0
    /\ expanded = <<>>
    /\ call = NoCall
    /\ result = ""
    /\ error = ""

\* iteration_budget(allowed_iterations)(iterations), main.py
Budget(n) == n < budget

\* line 58 and 60-61: the budget allows one more iteration
Iterate ==
    /\ pc = "start"
    /\ Budget(iterations)
    /\ pc' = "select"
    /\ node' = 1
    /\ depth' = 1
    /\ expanded' = <<>>
    /\ UNCHANGED <<nodes, iterations, rstart, call, result, error>>
    /\ UNCHANGED <<vvars, avars, svars>>

\* line 68: the test of the selection loop
Descend ==
    /\ nodes[node].untried_actions = <<>>
    /\ DOMAIN nodes[node].children # {}
    /\ depth <= horizon

\* lines 69-72: one round of the selection loop, select_action being
\* choice(list(node.tried_actions.keys()))
Select ==
    /\ pc = "select"
    /\ Descend
    /\ \E a \in TriedKeys(nodes[node]) :
          \E e \in Outcomes(ActionNamed(problem, a)) :
             LET sim == SimulateAction(nodes, node, a, e)
             IN  /\ nodes' = sim.nodes
                 /\ node' = sim.child
                 /\ call' = Call("simulate_action", node, a, e)
    /\ depth' = depth + 1
    /\ UNCHANGED <<pc, iterations, rstart, expanded, result, error>>
    /\ UNCHANGED <<vvars, avars, svars>>

\* Expandable without the test of is_goal
ExpandableGoal ==
    /\ nodes[node].untried_actions # <<>>
    /\ depth <= horizon

\* Expandable with the expansion allowed one level below the horizon
ExpandablePast ==
    /\ nodes[node].untried_actions # <<>>
    /\ depth <= horizon + 1
    /\ ~nodes[node].is_goal

\* line 79: the test of the expansion
Expandable ==
    /\ nodes[node].untried_actions # <<>>
    /\ depth <= horizon
    /\ ~nodes[node].is_goal

\* lines 79-84: the selection loop has ended and the node is expanded,
\* expand_action being choice(node.untried_actions)
Expand ==
    /\ pc = "select"
    /\ ~Descend
    /\ Expandable
    /\ \E a \in Range(nodes[node].untried_actions) :
          \E e \in Outcomes(ActionNamed(problem, a)) :
             LET done == PerformAction(nodes, node, a, e)
             IN  /\ nodes' = done.nodes
                 /\ node' = done.child
                 /\ rstart' = done.child
                 /\ expanded' = <<node, a, done.child>>
                 /\ call' = Call("perform_action", node, a, e)
    /\ depth' = depth + 1
    /\ pc' = "rollout"
    /\ UNCHANGED <<iterations, result, error>>
    /\ UNCHANGED <<vvars, avars, svars>>

\* line 79 when the test fails: nothing is expanded
NoExpand ==
    /\ pc = "select"
    /\ ~Descend
    /\ ~Expandable
    /\ pc' = "rollout"
    /\ rstart' = node
    /\ UNCHANGED <<nodes, node, depth, iterations, expanded, call, result, error>>
    /\ UNCHANGED <<vvars, avars, svars>>

\* line 89: the call of rollout_actions returns
Rollout ==
    /\ pc = "rollout"
    /\ \E r \in RolloutActions(nodes, node, depth, horizon) :
          /\ r.error = ""
          /\ nodes' = r.nodes
          /\ node' = r.node
          /\ depth' = r.depth
    /\ call' = Call("rollout_actions", node, "", 0)
    /\ pc' = "update"
    /\ UNCHANGED <<iterations, rstart, expanded, result, error>>
    /\ UNCHANGED <<vvars, avars, svars>>

\* line 89: the call of rollout_actions raises; the nodes it created remain
RolloutRaise ==
    /\ pc = "rollout"
    /\ \E r \in RolloutActions(nodes, node, depth, horizon) :
          /\ r.error # ""
          /\ nodes' = r.nodes
          /\ error' = r.error
    /\ call' = Call("rollout_actions", node, "", 0)
    /\ pc' = "error"
    /\ UNCHANGED <<node, depth, iterations, rstart, expanded, result>>
    /\ UNCHANGED <<vvars, avars, svars>>

\* lines 96-98: backpropagation, and the iteration is complete
Backpropagate ==
    /\ pc = "update"
    /\ nodes' = Update(nodes, node)
    /\ iterations' = iterations + 1
    /\ call' = Call("update", node, "", 0)
    /\ pc' = "start"
    /\ UNCHANGED <<node, depth, rstart, expanded, result, error>>
    /\ UNCHANGED <<vvars, avars, svars>>

\* SelectBest without the sort: the entry tried first is returned
SelectFirst(acts) == acts[1].action

\* the default select_best: sorted(acts, key=reward/visits, reverse=True)[0].action;
\* the sort is stable, so the first of the best entries is returned
SelectBest(acts) ==
    LET Best(i) == \A j \in (1..Len(acts)) \ {i} :
                       acts[j].reward * acts[i].visits <= acts[i].reward * acts[j].visits
    IN  acts[CHOOSE i \in 1..Len(acts) : Best(i) /\ \A j \in 1..(i - 1) : ~Best(j)].action

\* lines 58 and 105-108: the budget is exhausted and select_best returns
Return ==
    /\ pc = "start"
    /\ ~Budget(iterations)
    /\ nodes[1].tried_actions # <<>>
    /\ \A i \in 1..Len(nodes[1].tried_actions) : nodes[1].tried_actions[i].visits # 0
    /\ result' = SelectBest(nodes[1].tried_actions)
    /\ pc' = "done"
    /\ UNCHANGED <<nodes, node, depth, iterations, rstart, expanded, call, error>>
    /\ UNCHANGED <<vvars, avars, svars>>

\* line 108 when select_best raises: IndexError on an empty list,
\* ZeroDivisionError on an entry without visits
ReturnRaise ==
    /\ pc = "start"
    /\ ~Budget(iterations)
    /\ nodes[1].tried_actions # <<>> =>
          \E i \in 1..Len(nodes[1].tried_actions) : nodes[1].tried_actions[i].visits = 0
    /\ error' = IF nodes[1].tried_actions = <<>> THEN "IndexError" ELSE "ZeroDivisionError"
    /\ pc' = "error"
    /\ UNCHANGED <<nodes, node, depth, iterations, rstart, expanded, call, result>>
    /\ UNCHANGED <<vvars, avars, svars>>

Next ==
    \/ Iterate
    \/ Select
    \/ Expand
    \/ NoExpand
    \/ Rollout
    \/ RolloutRaise
    \/ Backpropagate
    \/ Return
    \/ ReturnRaise

Spec == Init /\ [][Next]_vars

(***************************************************************************)
(* The Node methods called directly, as main.py calls perform_action on    *)
(* its own root: a caller makes up to MaxCalls calls of perform_action,    *)
(* simulate_action and update on any node of a tree, with any action of    *)
(* the problem, and goes on after an exception.  iterations counts the     *)
(* calls, node is the node returned last, error the exception of the last  *)
(* call, expanded the last call of perform_action.                         *)
(***************************************************************************)
NInit ==
    /\ VIdle
    /\ AIdle
    /\ problem = BegProblem
    /\ horizon = MaxCalls
    /\ budget = 0
    /\ discounting = <<1, 2>>
    /\ nodes = <<Node(BegProblem, 0, "", 0, BegProblem.init)>>
    /\ pc = "call"
    /\ node = 0
    /\ depth = 0
    /\ iterations = 0
    /\ rstart = 0
    /\ expanded = <<>>
    /\ call = NoCall
    /\ result = ""
    /\ error = ""

CallPerform ==
    /\ pc = "call"
    /\ iterations < MaxCalls
    /\ \E n \in 1..Len(nodes), a \in ActionNames(problem) :
          \E e \in Outcomes(ActionNamed(problem, a)) :
             LET done == PerformAction(nodes, n, a, e)
             IN  /\ nodes' = done.nodes
                 /\ node' = done.child
                 /\ error' = done.error
                 /\ expanded' = <<n, a, done.child>>
                 /\ call' = Call("perform_action", n, a, IF done.error = "" THEN e ELSE 0)
    /\ iterations' = iterations + 1
    /\ UNCHANGED <<pc, depth, rstart, result>>
    /\ UNCHANGED <<vvars, avars, svars>>

CallSimulate ==
    /\ pc = "call"
    /\ iterations < MaxCalls
    /\ \E n \in 1..Len(nodes), a \in ActionNames(problem), most_probable \in BOOLEAN :
          \E e \in IF most_probable THEN {1} ELSE Outcomes(ActionNamed(problem, a)) :
             LET sim == SimulateAction(nodes, n, a, e)
             IN  /\ nodes' = sim.nodes
                 /\ node' = sim.child
                 /\ call' = Call("simulate_action", n, a, e)
    /\ error' = ""
    /\ iterations' = iterations + 1
    /\ UNCHANGED <<pc, depth, rstart, expanded, result>>
    /\ UNCHANGED <<vvars, avars, svars>>

CallUpdate ==
    /\ pc = "call"
    /\ iterations < MaxCalls
    /\ \E n \in 1..Len(nodes) :
          /\ nodes' = Update(nodes, n)
          /\ call' = Call("update", n, "", 0)
    /\ error' = ""
    /\ iterations' = iterations + 1
    /\ UNCHANGED <<pc, node, depth, rstart, expanded, result>>
    /\ UNCHANGED <<vvars, avars, svars>>

NNext == CallPerform \/ CallSimulate \/ CallUpdate

SpecNode == NInit /\ [][NNext]_vars

(***************************************************************************)
(* rollout_actions called directly, the rollout policy making choices the  *)
(* caller fixes (as a seeded generator does): a caller makes up to         *)
(* MaxRollouts calls of perform_action and rollout_actions on any node of  *)
(* a tree, with horizon MaxRollouts.  The call records its arguments,      *)
(* whether it repeats the call made just before, and the number of nodes   *)
(* it created.                                                             *)
(***************************************************************************)
RInit ==
    /\ VIdle
    /\ AIdle
    /\ problem = BegProblem
    /\ horizon = MaxRollouts
    /\ budget = 0
    /\ discounting = <<1, 2>>
    /\ nodes = <<Node(BegProblem, 0, "", 0, BegProblem.init)>>
    /\ pc = "call"
    /\ node = 0
    /\ depth = 0
    /\ iterations = 0
    /\ rstart = 0
    /\ expanded = <<>>
    /\ call = NoCall
    /\ result = ""
    /\ error = ""

RolloutCall(n, d, choices, again, created) ==
    [op |-> "rollout_actions", node |-> n, action |-> "", effect |-> 0,
     depth |-> d, choices |-> choices, again |-> again, created |-> created]

CallRollout ==
    /\ pc = "call"
    /\ iterations < MaxRollouts
    /\ \E n \in 1..Len(nodes), d \in 1..(horizon + 1) :
          \E choices \in SeqsUpTo(ActionNames(problem), horizon - 1) :
             LET r     == RolloutAlong(nodes, n, d, horizon, choices)
                 again == /\ call.op = "rollout_actions"
                          /\ call.node = n
                          /\ call.depth = d
                          /\ call.choices = choices
             IN  /\ r.valid
                 /\ r.rest = <<>>
                 /\ nodes' = r.nodes
                 /\ node' = r.node
                 /\ depth' = r.depth
                 /\ error' = r.error
                 /\ call' = RolloutCall(n, d, choices, again, Len(r.nodes) - Len(nodes))
    /\ iterations' = iterations + 1
    /\ UNCHANGED <<pc, rstart, expanded, result>>
    /\ UNCHANGED <<vvars, avars, svars>>

\* perform_action called by the caller of rollout_actions
RolloutPerform ==
    /\ iterations < MaxRollouts
    /\ CallPerform

RNext == RolloutPerform \/ CallRollout

SpecRollout == RInit /\ [][RNext]_vars

(***************************************************************************)
(* The sampler on its own: a list of weights is chosen, the table is built *)
(* and draws are made from it.  The lists are those of up to MaxN weights  *)
(* in Weights and the list 0.5, 0.3, 0.2 (in tenths).                      *)
(***************************************************************************)
Weights == (0 - 1)..MaxW

VInit ==
    /\ TIdle
    /\ AIdle
    /\ elements \in SeqsUpTo(Weights, MaxN) \cup {<<5, 3, 2>>}
    /\ prob = <<>>
    /\ alias = <<>>
    /\ vpc = "new"
    /\ drawn = 0

\* the total weight, the unit of the cutoffs of the table
Total == SumSeq(elements)

VoseNew ==
    /\ vpc = "new"
    /\ LET t == VoseInit([i \in 1..Len(elements) |-> <<elements[i], i>>])
       IN  /\ vpc' = IF t.ok THEN "built" ELSE "error"
           /\ prob' = t.prob
           /\ alias' = t.alias
    /\ UNCHANGED <<elements, drawn>>
    /\ UNCHANGED <<avars, svars, tvars>>

VoseDraw ==
    /\ vpc = "built"
    /\ \E k1 \in 0..(DrawGrid - 1), k2 \in 0..(DrawGrid - 1) :
          drawn' = VoseRandom([one |-> Total, prob |-> prob, alias |-> alias],
                              k1, k2, DrawGrid)
    /\ UNCHANGED <<elements, prob, alias, vpc>>
    /\ UNCHANGED <<avars, svars, tvars>>

VNext == VoseNew \/ VoseDraw

SpecVose == VInit /\ [][VNext]_vars

(***************************************************************************)
(* The construction of an action: a list of effects is chosen, the Action  *)
(* is built from it, and a search is set up on a problem with that action. *)
(* An Effect holds a probability of at most 1 (the setter of line 90       *)
(* refuses a larger one); the probabilities are numerators over MaxDen.    *)
(***************************************************************************)
Probabilities == (0 - 1)..MaxDen

\* the effects a list is made of: one that changes the state and one that,
\* like the default effect, changes nothing
EffectPool ==
    {Effect({"riches"}, {"house"}, p, 1) : p \in Probabilities}
    \cup {Effect({}, {}, p, 0) : p \in Probabilities}

\* sum([effect.probability for effect in effects])
SumProbability(es) == SumSeq([i \in 1..Len(es) |-> es[i].probability])

AInit ==
    /\ VIdle
    /\ TIdle
    /\ arg_effects \in SeqsUpTo(EffectPool, MaxN)
    /\ new_action = NoAction
    /\ apc = "new"

\* Action("made", [({}, {riches})], effects); the default effect is appended to
\* the list of the caller (line 119 keeps that list, line 124 appends to it),
\* unless its construction raises
NewAction ==
    /\ apc = "new"
    /\ LET a     == Action("made", << <<{}, {"riches"}>> >>, arg_effects, MaxDen)
           total == SumProbability(arg_effects)
       IN  /\ apc' = IF a.ok THEN "built" ELSE "error"
           /\ new_action' = IF a.ok THEN a ELSE NoAction
           /\ error' = IF a.ok THEN "" ELSE "AttributeError"
           /\ arg_effects' = IF total < MaxDen /\ ~(total < 0)
                             THEN Append(arg_effects, Effect({}, {}, MaxDen - total, 0))
                             ELSE arg_effects
    /\ UNCHANGED <<nodes, pc, node, depth, iterations, rstart, expanded, call, result>>
    /\ UNCHANGED <<vvars, svars>>

\* a Problem is made of the action and mcts is called on it: lines 55-56
NewSearch ==
    /\ apc = "built"
    /\ pc = "idle"
    /\ LET p == Problem("made", {"riches"}, << <<{}, {"house"}>> >>, 1, <<new_action>>)
       IN  /\ problem' = p
           /\ nodes' = <<Node(p, 0, "", 0, p.init)>>
    /\ horizon' = MaxHorizon
    /\ budget' = MaxIter
    /\ discounting' = <<1, 2>>
    /\ pc' = "start"
    /\ UNCHANGED <<node, depth, iterations, rstart, expanded, call, result, error>>
    /\ UNCHANGED <<vvars, avars>>

ANext == NewAction \/ NewSearch

SpecAction == AInit /\ [][ANext]_vars

(***************************************************************************)
(* The construction of nodes: a problem is made of the actions traffic and *)
(* beg of main.py, each with a list of preconditions of its own, a list of *)
(* goals and an initial state; its root is constructed as mcts does (line  *)
(* 55), and simulate_action constructs further nodes below it.  An empty   *)
(* list stands for preconditions that are empty or absent (None): line 118 *)
(* treats both alike.                                                      *)
(***************************************************************************)
Atoms == {"riches", "house"}

\* the precondition lists an action is constructed with
PreconditionPool ==
    {<<>>,
     << <<{}, {"riches"}>> >>,
     << <<{"house"}, {}>> >>,
     << <<{"house"}, {"riches"}>>, <<{"riches"}, {"house"}>> >>}

\* the goal lists a problem is constructed with
GoalPool ==
    {<<>>,
     << <<{}, {"house"}>> >>,
     << <<{"riches"}, {}>>, <<{}, {"riches", "house"}>> >>}

\* traffic and beg of main.py with the preconditions given
TrafficWith(preconditions) ==
    Action("traffic", preconditions,
           <<Effect({"riches"}, {"house"}, 9, 0), Effect({"riches"}, {}, 1, 0)>>, 10)

BegWith(preconditions) ==
    Action("beg", preconditions, <<Effect({"riches"}, {"riches"}, 1, 0 - 1)>>, 2)

PInit ==
    /\ VIdle
    /\ AIdle
    /\ \E t \in PreconditionPool, b \in PreconditionPool, g \in GoalPool,
          initial \in SUBSET Atoms :
          problem = Problem("made", initial, g, 1, <<TrafficWith(t), BegWith(b)>>)
    /\ horizon = MaxCalls
    /\ budget = 0
    /\ discounting = <<1, 2>>
    /\ nodes = <<>>
    /\ pc = "new"
    /\ node = 0
    /\ depth = 0
    /\ iterations = 0
    /\ rstart = 0
    /\ expanded = <<>>
    /\ call = NoCall
    /\ result = ""
    /\ error = ""

\* root_node = Node(problem, None, None, None, root_state)
NewRoot ==
    /\ pc = "new"
    /\ nodes' = <<Node(problem, 0, "", 0, problem.init)>>
    /\ node' = 1
    /\ pc' = "call"
    /\ UNCHANGED <<depth, iterations, rstart, expanded, call, result, error>>
    /\ UNCHANGED <<vvars, avars, svars>>

\* simulate_action on any node, with any action: up to MaxSimulations calls
SimulateBelow == iterations < MaxSimulations /\ CallSimulate

PNext == NewRoot \/ SimulateBelow

SpecProblem == PInit /\ [][PNext]_vars

(***************************************************************************)
(* The attributes of an Effect: effects are constructed, their delete and  *)
(* add sets are assigned, and their probability is assigned with values    *)
(* k / MaxDen below 0, within [0, 1] and above 1.  arg_effects holds the   *)
(* Effect objects made so far, call                                        *)
(* the last assignment (node: the position of the object assigned to, 0    *)
(* for a construction; effect: the numerator of the value) and error its   *)
(* exception.                                                              *)
(***************************************************************************)
Values == (0 - 1)..(MaxDen + 1)

\* the setter of Effect.probability, lines 85-93: the test 0 < value > 1 is
\* 0 < value and value > 1
ProbabilitySetter(value, den) ==
    IF 0 < value /\ value > den
    THEN [ok |-> FALSE, probability |-> value]
    ELSE [ok |-> TRUE, probability |-> value]

EInit ==
    /\ VIdle
    /\ TIdle
    /\ arg_effects = <<>>
    /\ new_action = NoAction
    /\ apc = "effect"

\* Effect({riches}, {house}, value): line 47 calls the setter, and no object
\* is made when it raises
NewEffect ==
    /\ apc = "effect"
    /\ Len(arg_effects) < MaxN
    /\ \E value \in Values :
          LET set == ProbabilitySetter(value, MaxDen)
          IN  /\ arg_effects' = IF set.ok
                                THEN Append(arg_effects,
                                            Effect({"riches"}, {"house"}, set.probability, 0))
                                ELSE arg_effects
              /\ error' = IF set.ok THEN "" ELSE "AttributeError"
              /\ call' = Call("probability", 0, "", value)
    /\ UNCHANGED <<new_action, apc>>
    /\ UNCHANGED <<nodes, pc, node, depth, iterations, rstart, expanded, result>>
    /\ UNCHANGED <<vvars, svars>>

\* effect.probability = value on an object made before
AssignProbability ==
    /\ apc = "effect"
    /\ \E i \in 1..Len(arg_effects), value \in Values :
          LET set == ProbabilitySetter(value, MaxDen)
          IN  /\ arg_effects' = IF set.ok
                                THEN [arg_effects EXCEPT ![i].probability = set.probability]
                                ELSE arg_effects
              /\ error' = IF set.ok THEN "" ELSE "AttributeError"
              /\ call' = Call("probability", i, "", value)
    /\ UNCHANGED <<new_action, apc>>
    /\ UNCHANGED <<nodes, pc, node, depth, iterations, rstart, expanded, result>>
    /\ UNCHANGED <<vvars, svars>>

\* the iterables assigned to effect.delete and effect.add: lists of atoms,
\* one of them with an atom twice
AtomLists == {<<>>, <<"yacht", "yacht">>}

\* effect.delete = value on an object made before (lines 57-62): the setter
\* stores set(value) and never raises; iterations counts the assignments of
\* delete and add sets, up to MaxAssignments
AssignDelete ==
    /\ apc = "effect"
    /\ iterations < MaxAssignments
    /\ \E i \in 1..Len(arg_effects), value \in AtomLists :
          /\ arg_effects' = [arg_effects EXCEPT ![i].delete = Range(value)]
          /\ call' = Call("delete", i, "", 0)
    /\ error' = ""
    /\ iterations' = iterations + 1
    /\ UNCHANGED <<new_action, apc>>
    /\ UNCHANGED <<nodes, pc, node, depth, rstart, expanded, result>>
    /\ UNCHANGED <<vvars, svars>>

\* effect.add = value on an object made before (lines 71-76)
AssignAdd ==
    /\ apc = "effect"
    /\ iterations < MaxAssignments
    /\ \E i \in 1..Len(arg_effects), value \in AtomLists :
          /\ arg_effects' = [arg_effects EXCEPT ![i].add = Range(value)]
          /\ call' = Call("add", i, "", 0)
    /\ error' = ""
    /\ iterations' = iterations + 1
    /\ UNCHANGED <<new_action, apc>>
    /\ UNCHANGED <<nodes, pc, node, depth, rstart, expanded, result>>
    /\ UNCHANGED <<vvars, svars>>

ENext == NewEffect \/ AssignProbability \/ AssignDelete \/ AssignAdd

SpecEffect == EInit /\ [][ENext]_vars

(***************************************************************************)
(* Notions used to state the properties of the search.                     *)
(***************************************************************************)
\* the nodes from n up to the root, n first
RECURSIVE PathUp(_, _)
PathUp(ns, n) == IF n = 0 THEN <<>> ELSE <<n>> \o PathUp(ns, ns[n].parent)

PathSet(ns, n) == Range(PathUp(ns, n))

\* the statistics of a node
Stats(ns, n) == <<ns[n].visits, ns[n].utility, ns[n].tried_actions>>

\* the reward of the incoming effect of n (none at the root) plus the goal
\* reward if n is a goal, at the scale of the stored rewards
NodeReward(n) ==
    LET own  == IF nodes[n].parent = 0 THEN 0
                ELSE ActionNamed(problem, nodes[n].action).effects[nodes[n].effect].reward
        goal == IF GoalReached(problem, nodes[n].state) THEN problem.goal_reward ELSE 0
    IN  (own + goal) * Scale

\* R_i of the path P (terminal node first): the sum over the nodes P[j], j <= i,
\* of discounting^(i - j) * NodeReward(P[j])
DiscountedSum(P, i) ==
    SumSeq([j \in 1..i |->
              (NodeReward(P[j]) * Pow(discounting[1], i - j)) \div Pow(discounting[2], i - j)])

(***************************************************************************)
(* C1: in the end-to-end scenario (initial state {riches}, the single      *)
(* action traffic, goal house with reward 1, budget 1000, horizon 5) mcts  *)
(* returns the action traffic whatever effects are sampled: the call is    *)
(* never left by an exception and, once it has returned, the result is     *)
(* traffic.                                                                *)
(***************************************************************************)
C1_TrafficReturned ==
    problem.name = "traffic" =>
        /\ pc # "error"
        /\ pc = "done" => result = "traffic"

(***************************************************************************)
(* C2: every update increases the visits of the root by exactly 1, and at  *)
(* every iteration boundary root.visits is the number of completed         *)
(* iterations.                                                             *)
(***************************************************************************)
C2_RootVisits ==
    /\ [](pc = "start" => nodes[1].visits = iterations)
    /\ [][pc = "update" => nodes'[1].visits = nodes[1].visits + 1]_vars

\* an update started two or more transitions below the root, after an earlier one
C2_Witness ==
    /\ pc = "start"
    /\ call.op = "update"
    /\ nodes[call.node].parent \notin {0, 1}
    /\ iterations >= 2
    /\ nodes[1].visits = iterations

(***************************************************************************)
(* C3: an update started at node n_k with path n_k, ..., n_0 = root adds   *)
(* R_i = sum over j from i to k of d^(j-i) * (reward of n_j's incoming     *)
(* effect + goal_reward if n_j is a goal) to the recorded reward of        *)
(* n_i.action in n_(i-1).tried_actions and 1 to its visits, and R_i to     *)
(* n_i.utility, for every i >= 1 whose action is a key of                  *)
(* n_(i-1).tried_actions; it adds R_0 to root.utility.                     *)
(***************************************************************************)
C3_DiscountedReward ==
    [][pc = "update" =>
        LET P == PathUp(nodes, node)
        IN  \A i \in 1..Len(P) :
               LET m   == P[i]
                   par == nodes[m].parent
                   R   == DiscountedSum(P, i)
               IN  IF par = 0
                   THEN nodes'[m].utility = nodes[m].utility + R
                   ELSE nodes[m].action \in TriedKeys(nodes[par]) =>
                           /\ TriedEntry(nodes'[par], nodes[m].action).reward
                                 = TriedEntry(nodes[par], nodes[m].action).reward + R
                           /\ TriedEntry(nodes'[par], nodes[m].action).visits
                                 = TriedEntry(nodes[par], nodes[m].action).visits + 1
                           /\ nodes'[m].utility = nodes[m].utility + R]_vars

\* an update from a goal node through a tried transition whose effect has a
\* reward of its own: the entry of the root holds d * goal_reward + reward
C3_Witness ==
    /\ pc = "start"
    /\ call.op = "update"
    /\ nodes[call.node].is_goal
    /\ LET m == nodes[call.node].parent
       IN  /\ m # 0
           /\ nodes[m].parent = 1
           /\ nodes[m].action = "beg"
           /\ nodes[m].effect = 1
           /\ nodes[m].visits = 1
           /\ nodes[m].utility = (0 - Scale) + ((Scale * discounting[1]) \div discounting[2])

(***************************************************************************)
(* C4: rollout-only transitions never change the statistics.  In every     *)
(* step of an iteration the only nodes whose visits, utility or            *)
(* tried_actions change lie on the select/expand path from the root to the *)
(* node at which the rollout starts; update changes nothing strictly below *)
(* that node, whose transitions are not in their parent's tried_actions.   *)
(***************************************************************************)
C4_RolloutNotCounted ==
    [][/\ \A n \in 1..Len(nodes) :
             Stats(nodes', n) # Stats(nodes, n) =>
                n \in PathSet(nodes', IF pc \in {"rollout", "update"} THEN rstart ELSE node')
       /\ pc = "update" =>
             \A m \in PathSet(nodes, node) \ PathSet(nodes, rstart) :
                /\ nodes[m].action \notin TriedKeys(nodes[nodes[m].parent])
                /\ Stats(nodes', m) = Stats(nodes, m)]_vars

\* an update started two transitions below the node at which the rollout
\* started has left the rollout's nodes without visits
C4_Witness ==
    /\ pc = "start"
    /\ call.op = "update"
    /\ nodes[call.node].parent # 0
    /\ rstart \in PathSet(nodes, nodes[nodes[call.node].parent].parent)
    /\ nodes[rstart].visits >= 1
    /\ nodes[call.node].visits = 0
    /\ nodes[nodes[call.node].parent].visits = 0

(***************************************************************************)
(* C5: after a successful perform_action(a) on node N, a is absent from    *)
(* N.untried_actions, N.tried_actions[a] is (0, 0), the node returned is   *)
(* the child of N registered under (a, e) for an effect e of a, and the    *)
(* visits of the entry become 1 with the next update started at that child *)
(* or one of its descendants.                                              *)
(***************************************************************************)
C5_PerformPostcondition ==
    [][/\ (call'.op = "perform_action" /\ iterations' = iterations + 1 /\ error' = "") =>
             LET n == call'.node
                 a == call'.action
                 e == call'.effect
             IN  /\ a \notin Range(nodes'[n].untried_actions)
                 /\ a \in TriedKeys(nodes'[n])
                 /\ TriedEntry(nodes'[n], a).reward = 0
                 /\ TriedEntry(nodes'[n], a).visits = 0
                 /\ e \in 1..Len(ActionNamed(problem, a).effects)
                 /\ <<a, e>> \in DOMAIN nodes'[n].children
                 /\ node' = nodes'[n].children[<<a, e>>]
                 /\ expanded' = <<n, a, node'>>
       /\ (/\ call'.op = "update" /\ iterations' = iterations + 1
           /\ expanded # <<>>
           /\ expanded[3] \in PathSet(nodes, call'.node)
           /\ TriedEntry(nodes[expanded[1]], expanded[2]).visits = 0) =>
             TriedEntry(nodes'[expanded[1]], expanded[2]).visits = 1]_vars

\* perform_action, then an update started at a descendant of the child returned
C5_Witness ==
    /\ call.op = "update"
    /\ expanded # <<>>
    /\ expanded[3] # 0
    /\ call.node # expanded[3]
    /\ expanded[3] \in PathSet(nodes, call.node)
    /\ TriedEntry(nodes[expanded[1]], expanded[2]).visits = 1

(***************************************************************************)
(* C6: perform_action(a) on a node whose untried_actions does not contain  *)
(* a fails with an error and leaves the node's untried_actions,            *)
(* tried_actions and children (indeed every node) unchanged.               *)
(***************************************************************************)
C6_PerformFailure ==
    [][(/\ call'.op = "perform_action" /\ iterations' = iterations + 1
        /\ call'.action \notin Range(nodes[call'.node].untried_actions)) =>
            /\ error' = "ValueError"
            /\ nodes' = nodes]_vars

\* perform_action of an action that was already tried on that node
C6_Witness ==
    /\ call.op = "perform_action"
    /\ error = "ValueError"
    /\ call.action \in TriedKeys(nodes[call.node])
    /\ DOMAIN nodes[call.node].children # {}

(***************************************************************************)
(* C7: child identity is the key (action, effect).  Every node created     *)
(* from a node is still the child registered under its own key, so no call *)
(* of simulate_action that resolved a key already present created a        *)
(* duplicate; and two different keys of a node never map to the same       *)
(* child, also when the resulting states are equal.                        *)
(***************************************************************************)
C7_ChildIdentity ==
    /\ \A c \in 2..Len(nodes) :
          LET key == <<nodes[c].action, nodes[c].effect>>
              par == nodes[c].parent
          IN  /\ key \in DOMAIN nodes[par].children
              /\ nodes[par].children[key] = c
    /\ \A n \in 1..Len(nodes) :
          \A k1, k2 \in DOMAIN nodes[n].children :
             k1 # k2 => nodes[n].children[k1] # nodes[n].children[k2]

\* perform_action has just returned a child that a rollout had created, and
\* some node has two children with the same state
C7_Witness ==
    /\ pc = "rollout"
    /\ expanded # <<>>
    /\ call.op = "perform_action"
    /\ DOMAIN nodes[node].children # {}
    /\ \E n \in 1..Len(nodes) :
          \E k1, k2 \in DOMAIN nodes[n].children :
             /\ k1 # k2
             /\ nodes[nodes[n].children[k1]].state = nodes[nodes[n].children[k2]].state

(***************************************************************************)
(* C8: simulate_action and rollout_actions never change the                *)
(* untried_actions or tried_actions of a node that existed before the      *)
(* call, and perform_action is the only operation that moves an action     *)
(* from untried_actions to tried_actions.                                  *)
(***************************************************************************)
C8_SimulationKeepsBookkeeping ==
    [][/\ (pc = "rollout" \/ (pc = "select" /\ pc' = "select")) =>
             \A n \in 1..Len(nodes) :
                /\ nodes'[n].untried_actions = nodes[n].untried_actions
                /\ nodes'[n].tried_actions = nodes[n].tried_actions
       /\ \A n \in 1..Len(nodes) :
             (\/ nodes'[n].untried_actions # nodes[n].untried_actions
              \/ TriedKeys(nodes'[n]) # TriedKeys(nodes[n])) =>
                /\ pc = "select" /\ pc' = "rollout"
                /\ call'.op = "perform_action"
                /\ call'.node = n
                /\ call'.action \in Range(nodes[n].untried_actions)
                /\ nodes'[n].untried_actions = RemoveFirst(nodes[n].untried_actions, call'.action)
                /\ TriedKeys(nodes'[n]) = TriedKeys(nodes[n]) \cup {call'.action}]_vars

\* a rollout has run below the node at which it started, and some node with
\* tried actions holds a child under an action that is still untried
C8_Witness ==
    /\ pc = "update"
    /\ call.op = "rollout_actions"
    /\ node # rstart
    /\ \E n \in 1..Len(nodes) :
          /\ nodes[n].tried_actions # <<>>
          /\ nodes[n].untried_actions # <<>>
          /\ \E k \in DOMAIN nodes[n].children : k[1] \in Range(nodes[n].untried_actions)

(***************************************************************************)
(* C9: the goal reward is counted at most once per backpropagation.  On    *)
(* the path of every update the driver performs only the node at which the *)
(* update starts can be a goal; goal nodes are never expanded or descended *)
(* through, so they have no tried actions and no children.                 *)
(***************************************************************************)
C9_GoalOnlyTerminal ==
    /\ \A n \in 1..Len(nodes) :
          nodes[n].is_goal =>
             /\ nodes[n].tried_actions = <<>>
             /\ DOMAIN nodes[n].children = {}
    /\ pc = "update" =>
          \A m \in PathSet(nodes, node) \ {node} : ~nodes[m].is_goal

\* a goal node with an applicable action, visited twice and never expanded
C9_Witness ==
    \E n \in 1..Len(nodes) :
       /\ nodes[n].is_goal
       /\ nodes[n].visits >= 2
       /\ nodes[n].untried_actions # <<>>
       /\ DOMAIN nodes[n].children = {}
       /\ pc = "update"
       /\ node = n

(***************************************************************************)
(* C10: exact proportional sampling.  For every list of weights >= 0 with  *)
(* positive sum, the table gives outcome o the mass                        *)
(* (1/n) * sum over slots ([primary = o] * cutoff + [alias = o] *          *)
(* (1 - cutoff)) = w_o / sum(w).  With cutoffs as numerators over the      *)
(* total this reads: sum over slots = w_o * n.                             *)
(***************************************************************************)
SlotMass(o, i) ==
    (IF alias[i][1] = o THEN prob[i] ELSE 0)
    + (IF alias[i][2] = o THEN Total - prob[i] ELSE 0)

Mass(o) == SumSeq([i \in 1..Len(prob) |-> SlotMass(o, i)])

C10_ExactProportional ==
    vpc = "built" =>
        /\ Len(prob) = Len(elements)
        /\ \A o \in 1..Len(elements) : Mass(o) = elements[o] * Len(elements)

\* a table of three slots, one of which is split between two outcomes
C10_Witness ==
    /\ vpc = "built"
    /\ Len(elements) = 3
    /\ \E i \in 1..Len(prob) : prob[i] > 0 /\ prob[i] < Total /\ alias[i][1] # alias[i][2]
    /\ \E o \in 1..3 : elements[o] = 0

(***************************************************************************)
(* C11: the construction of the sampler fails with an error when the list  *)
(* is empty, when a weight is negative or when the weights sum to zero;    *)
(* for every other list (all weights >= 0, positive sum) it succeeds.      *)
(***************************************************************************)
C11_ConstructionErrors ==
    LET invalid == \/ elements = <<>>
                   \/ \E i \in 1..Len(elements) : elements[i] < 0
                   \/ SumSeq(elements) = 0
    IN  /\ vpc = "error" => invalid
        /\ vpc = "built" => ~invalid

\* a list with a negative weight and a positive sum was rejected
C11_Witness ==
    /\ vpc = "error"
    /\ Len(elements) = 3
    /\ \E i \in 1..3 : elements[i] < 0
    /\ SumSeq(elements) > 0

(***************************************************************************)
(* C12: the shape of the alias table.  A sampler built from n (weight,     *)
(* outcome) pairs has exactly n slots, each with one cutoff and one pair   *)
(* of outcomes; every cutoff lies in [0, 1]; and random() returns, for     *)
(* every pair of uniform draws in [0, 1), an outcome of the input list.    *)
(* Weights 0.5, 0.3, 0.2 give a table of 3 slots.                          *)
(***************************************************************************)
C12_TableShape ==
    vpc = "built" =>
        LET n == Len(elements)
            t == [one |-> Total, prob |-> prob, alias |-> alias]
        IN  /\ Len(prob) = n
            /\ Len(alias) = n
            /\ \A i \in 1..Len(prob) : 0 <= prob[i] /\ prob[i] <= Total
            /\ \A i \in 1..Len(alias) :
                  /\ Len(alias[i]) = 2
                  /\ alias[i][1] \in 1..n
                  /\ alias[i][2] \in 1..n
            /\ \A k1 \in 0..(DrawGrid - 1), k2 \in 0..(DrawGrid - 1) :
                  VoseRandom(t, k1, k2, DrawGrid) \in 1..n
            /\ drawn # 0 => drawn \in 1..n

\* the table of the weights 0.5, 0.3, 0.2 has returned the third outcome
C12_Witness ==
    /\ vpc = "built"
    /\ elements = <<5, 3, 2>>
    /\ Len(prob) = 3
    /\ \E i \in 1..3 : prob[i] < Total /\ alias[i][1] # alias[i][2]
    /\ drawn = 3

\* the number of occurrences of x in the list s
Count(s, x) == Cardinality({i \in 1..Len(s) : s[i] = x})

(***************************************************************************)
(* C13: complete effect distribution.  After an Action is constructed from *)
(* effects whose probabilities sum to s <= 1, the probabilities of         *)
(* action.effects sum to exactly 1; if s < 1 exactly one no-op effect      *)
(* (empty delete set, empty add set, reward 0) with probability 1 - s has  *)
(* been added to the effects given, and if s = 1 none has been added.      *)
(***************************************************************************)
C13_CompleteDistribution ==
    [][(apc = "new" /\ apc' = "built") =>
          LET s     == SumProbability(arg_effects)
              noop  == Effect({}, {}, MaxDen - s, 0)
              made  == new_action'.effects
              every == Range(made) \cup Range(arg_effects) \cup {noop}
          IN  /\ SumProbability(made) = MaxDen
              /\ s < MaxDen =>
                    \A x \in every :
                       Count(made, x) = Count(arg_effects, x) + (IF x = noop THEN 1 ELSE 0)
              /\ s = MaxDen =>
                    \A x \in every : Count(made, x) = Count(arg_effects, x)]_vars

\* an action built from two effects that sum to less than 1, one of which
\* changes nothing with probability 1 / MaxDen: its three effects hold a
\* second no-op of that probability
C13_Witness ==
    /\ apc = "built"
    /\ Len(new_action.effects) = 3
    /\ \E i, j \in 1..3 :
          /\ i # j
          /\ new_action.effects[i] = Effect({}, {}, 1, 0)
          /\ new_action.effects[j] = Effect({}, {}, 1, 0)
    /\ SumProbability(new_action.effects) = MaxDen

(***************************************************************************)
(* C14: constructing an Action whose effect probabilities sum to more than *)
(* 1 fails with an error at construction time, so no Action with an        *)
(* over-complete distribution exists and no search runs on a problem with  *)
(* such an action.                                                         *)
(***************************************************************************)
C14_OverCompleteRejected ==
    /\ [][(apc = "new" /\ SumProbability(arg_effects) > MaxDen) =>
             /\ apc' = "error"
             /\ error' = "AttributeError"
             /\ new_action' = NoAction]_vars
    /\ [](apc = "built" => SumProbability(new_action.effects) <= MaxDen)
    /\ [](nodes # <<>> =>
             \A i \in 1..Len(problem.actions) :
                SumProbability(problem.actions[i].effects) <= problem.actions[i].den)

\* three effects of probabilities between 0 and 1 that sum to more than 1
\* were refused, and no search was set up
C14_Witness ==
    /\ apc = "error"
    /\ error = "AttributeError"
    /\ Len(arg_effects) = 3
    /\ \A i \in 1..3 : arg_effects[i].probability > 0 /\ arg_effects[i].probability < MaxDen
    /\ SumProbability(arg_effects) > MaxDen
    /\ new_action = NoAction
    /\ nodes = <<>>

\* math.log(k) for k = 1..20, in units of 10^-8, rounded down
LnTable ==
    <<0, 69314718, 109861228, 138629436, 160943791, 179175946, 194591014,
      207944154, 219722457, 230258509, 239789527, 248490664, 256494935,
      263905732, 270805020, 277258872, 283321334, 289037175, 294443897,
      299573227>>

\* the largest s in lo..hi with s * s <= x
RECURSIVE IsqrtIn(_, _, _)
IsqrtIn(x, lo, hi) ==
    IF lo = hi THEN lo
    ELSE LET mid == (lo + hi + 1) \div 2
         IN  IF mid * mid <= x THEN IsqrtIn(x, mid, hi) ELSE IsqrtIn(x, lo, mid - 1)

\* math.sqrt(x) rounded down, for an integer x below 2^31
Isqrt(x) == IsqrtIn(x, 0, 46340)

\* (1/math.sqrt(2)) * math.sqrt(math.log(N)/visits) in units of 10^-6: the
\* square root of ln(N) / (2 * visits), taken in units of 10^-4 and refined
\* by one linear step
Explore(N, visits) ==
    LET x == LnTable[N] \div (2 * visits)
        r == Isqrt(x)
    IN  IF r = 0 THEN 0 ELSE r * 100 + ((x - r * r) * 100) \div (2 * r)

\* line 108 of my_select_action: the ucb1 value of the tried action a of node
\* n, in units of 10^-6 (the rewards of the model are numerators over Scale);
\* ok is FALSE when the line raises: math.log(0) when the node has no visits
\* (ValueError), a division by zero when the entry has none
Ucb1(n, a) ==
    LET e == TriedEntry(n, a)
    IN  IF n.visits <= 0 \/ e.visits = 0
        THEN [ok |-> FALSE, value |-> 0]
        ELSE [ok |-> TRUE,
              value |-> Explore(n.visits, e.visits)
                        + (e.reward * 1000000) \div (Scale * e.visits)]

\* line 109, ucb1 > best_action[1]: some other tried action of node n has a
\* higher ucb1 value than action a
Ucb1Below(n, a) ==
    \E b \in TriedKeys(n) \ {a} :
       /\ Ucb1(n, a).ok
       /\ Ucb1(n, b).ok
       /\ Ucb1(n, b).value > Ucb1(n, a).value

(***************************************************************************)
(* C15: the default action selection is UCB1.  When the caller supplies no *)
(* select_action, every round of the selection loop picks, among the tried *)
(* actions of the current node, an action that maximises                   *)
(* (1/sqrt(2)) * sqrt(ln(N) / visits) + reward / visits: no other tried    *)
(* action of the node has a higher value.                                  *)
(***************************************************************************)
C15_DefaultSelectIsUcb1 ==
    [][(pc = "select" /\ pc' = "select" /\ call'.op = "simulate_action"
        /\ depth' = depth + 1) =>
            ~Ucb1Below(nodes[node], call'.action)]_vars

\* some precondition of action a holds in state
ApplicableIn(a, state) ==
    \E i \in 1..Len(a.preconditions) : Satisfies(state, a.preconditions[i])

(***************************************************************************)
(* C16: the final choice.  When the budget is exhausted after at least one *)
(* completed iteration from a non-goal root that has an applicable action  *)
(* (horizon >= 1), mcts with the default select_best returns an action     *)
(* that is a key of root.tried_actions, hence applicable in the root       *)
(* state, and whose reward/visits is maximal among the root's tried        *)
(* actions.                                                                *)
(***************************************************************************)
C16_FinalChoice ==
    [][(/\ pc = "start"
        /\ ~Budget(iterations)
        /\ iterations >= 1
        /\ horizon >= 1
        /\ ~GoalReached(problem, nodes[1].state)
        /\ \E a \in ActionNames(problem) : ApplicableIn(ActionNamed(problem, a), nodes[1].state)) =>
            /\ pc' = "done"
            /\ result' \in TriedKeys(nodes[1])
            /\ ApplicableIn(ActionNamed(problem, result'), nodes[1].state)
            /\ LET best == TriedEntry(nodes[1], result')
               IN  \A a \in TriedKeys(nodes[1]) \ {result'} :
                      LET e == TriedEntry(nodes[1], a)
                      IN  /\ e.visits > 0
                          /\ best.visits > 0
                          /\ e.reward * best.visits <= best.reward * e.visits]_vars

\* mcts has returned the action the root tried second, whose reward/visits is
\* strictly above that of the action tried first
C16_Witness ==
    /\ pc = "done"
    /\ iterations = MaxIter
    /\ Len(nodes[1].tried_actions) = 2
    /\ result = nodes[1].tried_actions[2].action
    /\ nodes[1].tried_actions[1].reward * nodes[1].tried_actions[2].visits
          < nodes[1].tried_actions[2].reward * nodes[1].tried_actions[1].visits

\* no action of the problem is applicable in the state of node n
DeadEnd(n) ==
    \A a \in ActionNames(problem) : ~ApplicableIn(ActionNamed(problem, a), n.state)

(***************************************************************************)
(* C17: a node constructed from a state in which no action is applicable   *)
(* has an empty untried_actions list and acts as a leaf: every phase of    *)
(* the driver that runs on it (select, expand, rollout with the default    *)
(* rollout policy, update) completes without raising an error, also when   *)
(* the node is not a goal and its depth is below the horizon.              *)
(***************************************************************************)
C17_DeadEndIsLeaf ==
    /\ [](\A n \in 1..Len(nodes) : DeadEnd(nodes[n]) => nodes[n].untried_actions = <<>>)
    /\ [][(pc \in {"select", "rollout", "update"} /\ DeadEnd(nodes[node])) =>
             (pc' # "error" /\ error' = "")]_vars

(***************************************************************************)
(* C18: budget discipline.  The driver evaluates the budget predicate      *)
(* exactly once before each iteration, on the number of iterations         *)
(* completed so far, and never during an iteration: at an iteration        *)
(* boundary the driver starts an iteration exactly when the predicate      *)
(* holds of that number.  Every started iteration runs its phases to       *)
(* completion (it is left only through update, which                       *)
(* completes it), and with the iteration cap n the driver has completed    *)
(* exactly n iterations when it returns.                                   *)
(***************************************************************************)
C18_BudgetDiscipline ==
    /\ [][pc = "start" => (Budget(iterations) <=> pc' = "select")]_vars
    /\ [][(pc \in {"select", "rollout", "update"}) =>
             /\ pc' \in {"select", "rollout", "update", "start"}
             /\ (pc' = "start") <=> (pc = "update")
             /\ iterations' = (IF pc = "update" THEN iterations + 1 ELSE iterations)]_vars
    /\ [](pc = "done" => iterations = budget)

(***************************************************************************)
(* C19: rollout determinism.  With most-probable effect resolution and a   *)
(* rollout policy that makes the same choices, two runs of rollout_actions *)
(* from the same node with the same depth and horizon return identical     *)
(* terminal states and identical depths: the second run returns the same   *)
(* terminal node and follows only already-registered children, creating no *)
(* node.                                                                   *)
(***************************************************************************)
C19_RolloutDeterminism ==
    [][(/\ call.op = "rollout_actions"
        /\ call'.op = "rollout_actions"
        /\ iterations' = iterations + 1
        /\ call'.again) =>
            /\ error' = error
            /\ node' = node
            /\ depth' = depth
            /\ nodes'[node'].state = nodes[node].state
            /\ nodes' = nodes
            /\ call'.created = 0]_vars

\* a rollout that went two or more levels down to a node that is no goal has
\* been repeated
C19_Witness ==
    /\ call.op = "rollout_actions"
    /\ call.again
    /\ error = ""
    /\ depth >= call.depth + 2
    /\ nodes[nodes[node].parent].parent = call.node
    /\ ~nodes[node].is_goal
    /\ call.created = 0

(***************************************************************************)
(* C20 as stated: every call of rollout_actions the driver makes after the *)
(* select and expand phases returns a node T and a depth k such that T is  *)
(* a goal node or k equals the horizon.                                    *)
(***************************************************************************)
C20_RolloutEndsAtHorizon ==
    (pc = "update" /\ call.op = "rollout_actions") =>
        (nodes[node].is_goal \/ depth = horizon)

(***************************************************************************)
(* C20 amended: every call of rollout_actions the driver makes returns a   *)
(* node T and a depth k such that T is a goal node or k is the larger of   *)
(* the horizon and the depth the call was made with; the driver calls it   *)
(* with a depth of at most horizon + 1, so k is horizon or horizon + 1.    *)
(***************************************************************************)
C20_RolloutEndsAtOrPastHorizon ==
    /\ [][(pc = "rollout" /\ pc' = "update") =>
             \/ nodes'[node'].is_goal
             \/ depth' = (IF depth > horizon THEN depth ELSE horizon)]_vars
    /\ [](pc \in {"rollout", "update"} => depth <= horizon + 1)

\* a rollout called on a node expanded at the horizon has returned that
\* node, which is no goal, with k = horizon + 1
C20_Witness ==
    /\ pc = "update"
    /\ call.op = "rollout_actions"
    /\ expanded # <<>>
    /\ node = rstart
    /\ ~nodes[node].is_goal
    /\ depth = horizon + 1

\* the depth of node n, the root having depth 1
DepthOf(ns, n) == Len(PathUp(ns, n))

(***************************************************************************)
(* C21: the horizon bound.  At every point of a search every node of the   *)
(* tree lies at most horizon transitions below the root (depth at most     *)
(* horizon + 1, the root having depth 1), whether selection, expansion or  *)
(* rollout created it; the driver's depth is the depth of its node, and    *)
(* the depth the rollout reports never exceeds horizon + 1.                *)
(***************************************************************************)
C21_HorizonBound ==
    /\ \A n \in 1..Len(nodes) : DepthOf(nodes, n) <= horizon + 1
    /\ pc \in {"select", "rollout", "update"} =>
          /\ depth = DepthOf(nodes, node)
          /\ depth <= horizon + 1

\* a node expanded at the horizon lies horizon transitions below the root,
\* and the rollout called on it has reported the depth horizon + 1
C21_Witness ==
    /\ pc = "update"
    /\ call.op = "rollout_actions"
    /\ DepthOf(nodes, node) = horizon + 1
    /\ depth = horizon + 1
    /\ expanded # <<>>
    /\ expanded[3] = node
    /\ DepthOf(nodes, expanded[1]) = horizon

(***************************************************************************)
(* C22: the tree structure.  At every point of a search, for every node N  *)
(* and every entry (a, e) -> C of N.children: C.parent is N, C.action is   *)
(* a, C.effect is e, a is applicable in N.state, e is one of a's effects,  *)
(* and C.state is (N.state minus e.delete) union e.add, so that an atom in *)
(* both sets is in C.state.  No entry is ever removed from a children map  *)
(* or changed.                                                             *)
(***************************************************************************)
C22_TreeStructure ==
    /\ [](\A n \in 1..Len(nodes) :
             \A k \in DOMAIN nodes[n].children :
                LET c == nodes[n].children[k]
                IN  /\ c \in 1..Len(nodes)
                    /\ nodes[c].parent = n
                    /\ nodes[c].action = k[1]
                    /\ nodes[c].effect = k[2]
                    /\ k[1] \in ActionNames(problem)
                    /\ ApplicableIn(ActionNamed(problem, k[1]), nodes[n].state)
                    /\ k[2] \in 1..Len(ActionNamed(problem, k[1]).effects)
                    /\ LET eff == ActionNamed(problem, k[1]).effects[k[2]]
                       IN  /\ nodes[c].state = (nodes[n].state \ eff.delete) \cup eff.add
                           /\ eff.delete \cap eff.add \subseteq nodes[c].state)
    /\ [][\A n \in 1..Len(nodes) :
             \A k \in DOMAIN nodes[n].children :
                /\ k \in DOMAIN nodes'[n].children
                /\ nodes'[n].children[k] = nodes[n].children[k]]_vars

\* a node without riches has a child under an effect that deletes and adds
\* riches, and the child has riches
C22_Witness ==
    \E n \in 1..Len(nodes) :
       \E k \in DOMAIN nodes[n].children :
          LET eff == ActionNamed(problem, k[1]).effects[k[2]]
          IN  /\ "riches" \in eff.delete \cap eff.add
              /\ "riches" \notin nodes[n].state
              /\ "riches" \in nodes[nodes[n].children[k]].state
              /\ Cardinality(DOMAIN nodes[n].children) >= 2

(***************************************************************************)
(* C23: the applicability semantics.  A node's untried_actions, as its     *)
(* construction leaves it, holds exactly the actions of the problem, each  *)
(* once, of which at least one precondition pair (neg, pos) has pos within *)
(* the node's state and neg disjoint from it; an action constructed with   *)
(* an empty or absent precondition list is among them in every state; and  *)
(* is_goal is true iff at least one goal pair passes the same test, so     *)
(* never for an empty goal list.                                           *)
(***************************************************************************)
C23_Applicability ==
    \A n \in 1..Len(nodes) :
       LET S == nodes[n].state
           U == nodes[n].untried_actions
           Passes(pair) == pair[2] \subseteq S /\ pair[1] \cap S = {}
       IN  /\ Range(U) = {problem.actions[i].name : i \in
                             {j \in 1..Len(problem.actions) :
                                \E pair \in Range(problem.actions[j].preconditions) :
                                   Passes(pair)}}
           /\ Len(U) = Cardinality(Range(U))
           /\ TrafficWith(<<>>) \in Range(problem.actions) => "traffic" \in Range(U)
           /\ BegWith(<<>>) \in Range(problem.actions) => "beg" \in Range(U)
           /\ nodes[n].is_goal <=> \E pair \in Range(problem.goals) : Passes(pair)
           /\ problem.goals = <<>> => ~nodes[n].is_goal

\* traffic has two precondition pairs, beg was constructed without any, and
\* the problem has two goal pairs: in the state {riches} both actions are
\* untried and the node is no goal; in the state {riches, house}, where a
\* negative atom fails each pair of traffic, only beg is untried and the
\* node is a goal
C23_Witness ==
    /\ Len(problem.goals) = 2
    /\ Len(problem.actions[1].preconditions) = 2
    /\ problem.actions[2] = BegWith(<<>>)
    /\ \E n, m \in 1..Len(nodes) :
          /\ nodes[n].state = {"riches"}
          /\ nodes[n].untried_actions = <<"traffic", "beg">>
          /\ ~nodes[n].is_goal
          /\ nodes[m].state = {"riches", "house"}
          /\ nodes[m].untried_actions = <<"beg">>
          /\ nodes[m].is_goal

(***************************************************************************)
(* C24: the most probable effect first.  After an Action is constructed    *)
(* its effects, the added no-op effect included, are in non-increasing     *)
(* order of probability, so that effects[0], the effect simulate_action    *)
(* uses when most_probable is set, has a probability no smaller than that  *)
(* of any other effect of the action.                                      *)
(***************************************************************************)
C24_MostProbableFirst ==
    apc = "built" =>
       /\ new_action.effects # <<>>
       /\ \A i, j \in 1..Len(new_action.effects) :
             i < j => new_action.effects[i].probability >= new_action.effects[j].probability
       /\ \A i \in 1..Len(new_action.effects) :
             new_action.effects[1].probability >= new_action.effects[i].probability
       /\ \A e \in EffectPool \cup Range(arg_effects) :
             Count(new_action.effects, e) = Count(arg_effects, e)

\* the effects were given in increasing order and the no-op effect was added
\* to them: the action holds them in another order, the most probable first
C24_Witness ==
    /\ apc = "built"
    /\ Len(arg_effects) = 3
    /\ arg_effects[1].probability < arg_effects[2].probability
    /\ arg_effects[3] = Effect({}, {}, MaxDen - SumProbability(Front(arg_effects)), 0)
    /\ arg_effects[3].probability > 0
    /\ new_action.effects # arg_effects
    /\ new_action.effects[1] = arg_effects[2]

(***************************************************************************)
(* C25: the validation of an effect's probability.  An assignment of the   *)
(* probability of an Effect, at its construction or later, with a value    *)
(* below 0 or above 1 raises an error and stores nothing: no object is     *)
(* made, and an object made before keeps its probability.                  *)
(***************************************************************************)
C25_ProbabilityValidated ==
    [][(call'.op = "probability" /\ (call'.effect < 0 \/ call'.effect > MaxDen)) =>
          /\ error' = "AttributeError"
          /\ arg_effects' = arg_effects]_vars

\* untried_actions and the keys of tried_actions of node n (a record) are
\* disjoint, hold no action twice, and together are exactly the actions of
\* the problem applicable in the state of n
Partitioned(n) ==
    LET U == n.untried_actions
        T == n.tried_actions
    IN  /\ \A i \in 1..Len(U), j \in 1..Len(T) : U[i] # T[j].action
        /\ \A i, j \in 1..Len(U) : i # j => U[i] # U[j]
        /\ \A i, j \in 1..Len(T) : i # j => T[i].action # T[j].action
        /\ \A i \in 1..Len(problem.actions) :
              ApplicableIn(problem.actions[i], n.state)
              <=> \/ \E j \in 1..Len(U) : U[j] = problem.actions[i].name
                  \/ \E j \in 1..Len(T) : T[j].action = problem.actions[i].name
        /\ \A j \in 1..Len(U) : U[j] \in ActionNames(problem)
        /\ \A j \in 1..Len(T) : T[j].action \in ActionNames(problem)

(***************************************************************************)
(* C26: the partition into untried and tried actions.  At every point of a *)
(* search and for every node, untried_actions and the keys of              *)
(* tried_actions are disjoint, hold no action twice, and together are      *)
(* exactly the actions of the problem applicable in the node's state;      *)
(* untried_actions only ever shrinks and tried_actions only ever grows.    *)
(* The partition holds for every node of the initial tree, and every step  *)
(* leaves the problem as it is and establishes the partition for every     *)
(* node it creates or changes: so it holds for every node at every point.  *)
(***************************************************************************)
C26_Partition ==
    /\ \A n \in 1..Len(nodes) : Partitioned(nodes[n])
    /\ [][/\ problem' = problem
          /\ \A n \in 1..Len(nodes') :
                (n > Len(nodes) \/ nodes'[n] # nodes[n]) => Partitioned(nodes'[n])
          /\ \A n \in 1..Len(nodes) :
                /\ n \in 1..Len(nodes')
                /\ \/ nodes'[n].untried_actions = nodes[n].untried_actions
                   \/ /\ Range(nodes'[n].untried_actions)
                            \subseteq Range(nodes[n].untried_actions)
                      /\ Len(nodes'[n].untried_actions) < Len(nodes[n].untried_actions)
                /\ \/ nodes'[n].tried_actions = nodes[n].tried_actions
                   \/ TriedKeys(nodes[n]) \subseteq TriedKeys(nodes'[n])]_vars

\* one node has tried one of its two applicable actions, another has tried
\* both, and a third, made by a rollout, has tried none
C26_Witness ==
    \E n, m, r \in 1..Len(nodes) :
       /\ Len(nodes[n].untried_actions) = 1
       /\ Len(nodes[n].tried_actions) = 1
       /\ nodes[m].untried_actions = <<>>
       /\ Len(nodes[m].tried_actions) = 2
       /\ Len(nodes[r].untried_actions) = 2
       /\ nodes[r].tried_actions = <<>>

\* every entry of tried_actions of node n has been visited
EntriesVisited(n) ==
    \A i \in 1..Len(nodes[n].tried_actions) : nodes[n].tried_actions[i].visits >= 1

\* the policies divide nothing by zero on node n: reward / visits in
\* select_best and in UCB1, ln(node.visits) / visits in UCB1
PoliciesDefined(n) ==
    /\ nodes[n].tried_actions # <<>>
    /\ EntriesVisited(n)
    /\ nodes[n].visits >= 1

\* the driver is about to call select_action(node): line 69
SelectCalled == pc = "select" /\ Descend

(***************************************************************************)
(* C27: no division by zero in the policies.  At every iteration boundary, *)
(* for the root, and whenever the driver calls select_action on a node,    *)
(* for that node: tried_actions is not empty, every entry of it has        *)
(* visits >= 1 and the node's own visits are >= 1.                         *)
(***************************************************************************)
C27_PoliciesDefined ==
    /\ pc = "start" => PoliciesDefined(1)
    /\ SelectCalled => PoliciesDefined(node)

(***************************************************************************)
(* C27 as it holds: at every iteration boundary every entry of every       *)
(* node's tried_actions has visits >= 1, and the root's visits are the     *)
(* number of completed iterations; whenever the driver calls select_action *)
(* on a node, that node's tried_actions is not empty, its entries have     *)
(* visits >= 1 and its own visits are >= 1; and select_best never divides  *)
(* by zero.  At an iteration boundary the root's tried_actions may be      *)
(* empty, and before the first iteration its visits are 0.                 *)
(***************************************************************************)
C27_PoliciesDefinedWhenCalled ==
    /\ pc = "start" =>
          /\ \A n \in 1..Len(nodes) : EntriesVisited(n)
          /\ nodes[1].visits = iterations
    /\ SelectCalled => PoliciesDefined(node)
    /\ error # "ZeroDivisionError"

\* select_action is called on a root that has tried both its actions, and
\* the search has before stood at an iteration boundary with entries visited
C27_Witness ==
    /\ SelectCalled
    /\ Len(nodes[node].tried_actions) = 2
    /\ nodes[node].visits >= 2
    /\ iterations >= 2

\* the children of node n registered under a key (a, e)
ChildrenUnder(n, a) ==
    {nodes[n].children[k] : k \in {x \in DOMAIN nodes[n].children : x[1] = a}}

\* the sums of the visits and of the utility over a set of nodes
RECURSIVE SumVisits(_)
SumVisits(S) ==
    IF S = {} THEN 0
    ELSE LET c == CHOOSE x \in S : TRUE IN nodes[c].visits + SumVisits(S \ {c})

RECURSIVE SumUtility(_)
SumUtility(S) ==
    IF S = {} THEN 0
    ELSE LET c == CHOOSE x \in S : TRUE IN nodes[c].utility + SumUtility(S \ {c})

(***************************************************************************)
(* C28: the statistics of an edge are those of its children.  At every     *)
(* iteration boundary, for every node P and every action a of              *)
(* P.tried_actions, the reward and the visits recorded for a are the sums  *)
(* of the utility and of the visits of all children of P registered under  *)
(* a key (a, e), those first created by a rollout before a was tried       *)
(* included; and the visits of the entries of P.tried_actions sum to at    *)
(* most P.visits.                                                          *)
(***************************************************************************)
C28_EdgeStatistics ==
    pc = "start" =>
       \A n \in 1..Len(nodes) :
          /\ \A i \in 1..Len(nodes[n].tried_actions) :
                LET entry == nodes[n].tried_actions[i]
                IN  /\ entry.visits = SumVisits(ChildrenUnder(n, entry.action))
                    /\ entry.reward = SumUtility(ChildrenUnder(n, entry.action))
          /\ SumSeq([i \in 1..Len(nodes[n].tried_actions) |->
                        nodes[n].tried_actions[i].visits]) <= nodes[n].visits

\* at an iteration boundary a node below the root has a tried action with
\* two children: one has been visited, the other, which a rollout made
\* before the action was tried, has not
C28_Witness ==
    /\ pc = "start"
    /\ \E n \in 2..Len(nodes) :
          \E i \in 1..Len(nodes[n].tried_actions) :
             LET entry == nodes[n].tried_actions[i]
             IN  /\ entry.visits >= 1
                 /\ \E c, d \in ChildrenUnder(n, entry.action) :
                       /\ c < d
                       /\ nodes[c].visits = 0
                       /\ nodes[d].visits >= 1

(***************************************************************************)
(* C29: an outcome of weight 0 is never drawn.  For every pair of uniform  *)
(* draws in [0, 1), a draw equal to 0 included, random() returns an        *)
(* outcome whose weight is not 0.                                          *)
(***************************************************************************)
C29_ZeroWeightNeverDrawn ==
    (vpc = "built" /\ drawn # 0) => elements[drawn] # 0

(***************************************************************************)
(* C30: the search from a goal root.  When the root state satisfies the    *)
(* goal, or when the budget admits no iteration, no iteration expands or   *)
(* descends below the root: the root remains the only node, its children   *)
(* and its tried_actions stay empty for the whole search and only its      *)
(* visits and utility change, by one visit and the goal reward per         *)
(* iteration; the search never returns an action, and the error it ends    *)
(* with is that of select_best applied to an empty list.                   *)
(***************************************************************************)
C30_GoalRoot ==
    /\ []((nodes[1].is_goal \/ budget = 0) =>
             /\ Len(nodes) = 1
             /\ DOMAIN nodes[1].children = {}
             /\ nodes[1].tried_actions = <<>>
             /\ pc = "start" =>
                   /\ nodes[1].visits = iterations
                   /\ nodes[1].utility = iterations * OwnReward(nodes, 1)
             /\ pc # "done"
             /\ result = ""
             /\ pc = "error" => error = "IndexError" /\ ~Budget(iterations))
    /\ [][(nodes[1].is_goal \/ budget = 0) =>
             nodes' = <<[nodes[1] EXCEPT !.visits = nodes'[1].visits,
                                         !.utility = nodes'[1].utility]>>]_vars

\* the search from a goal root has used its whole budget, the root has the
\* visits and the utility of that many iterations and nothing else, and
\* select_best has failed on the empty list
C30_Witness ==
    /\ nodes[1].is_goal
    /\ budget >= 2
    /\ iterations = budget
    /\ nodes[1].visits = budget
    /\ nodes[1].utility = budget * problem.goal_reward * Scale
    /\ nodes[1].untried_actions # <<>>
    /\ nodes[1].tried_actions = <<>>
    /\ pc = "error"
    /\ error = "IndexError"

=============================================================================
